---- MODULE Spec2Model ----
(***************************************************************************)
(* bench/pauli_from_list_qinfo.py: a benchmark driver that generates       *)
(* random Pauli labels, times SparsePauliOp(PauliList(label)).simplify()   *)
(* over a 2 x 6 grid of (k, n), and prints and collects the mean times.    *)
(*                                                                         *)
(* Modelling decisions                                                     *)
(*  - The generator of Python's random module is outside the repository.   *)
(*    Its state is [seed, pos]: the value it was last seeded with and the  *)
(*    number of random() draws made since.  The value of a draw is a       *)
(*    fixed function of that state (random below); nothing in the model    *)
(*    depends on which function it is, only on its being one.              *)
(*  - A str is the sequence of its characters.                             *)
(*  - rand_label is modelled twice: rand_label builds the list of strings  *)
(*    draw by draw (used on small k, n under SpecLabel); LabelBatch names  *)
(*    the same list by the generator state it was drawn from (used on the  *)
(*    grid, whose batches hold up to 10^7 characters).  BatchViewAgrees    *)
(*    relates the two.                                                     *)
(*  - timeit reads the timer before and after the loop of `number`         *)
(*    executions of the statement.  The timer is an integer clock; one     *)
(*    unit is one second, so that t * 1000 / number is exact for number    *)
(*    1 and 20.  The external calls take 0 or 1 unit each, and may raise.  *)
(*  - genLog, ctorLog, simpLog, callBase, seeded, failed and prevGenLog    *)
(*    are history variables: they record calls, and no action reads them   *)
(*    to decide what the program does.                                     *)
(***************************************************************************)
EXTENDS Integers, Sequences, FiniteSets, TLC

VARIABLES
    pc,                  \* position of the process
    run,                 \* 1: first run of the script, 2: the run after it
    calls,               \* completed calls of run_benchmarks in this process
    rng,                 \* state of the process-wide generator of `random`
    seeded,              \* calls of random.seed made by this process
    ki, ni,              \* positions of the two tuple iterators (0: not started)
    k, n,                \* loop variables of run_benchmarks (rand_label's arguments)
    label,               \* local `label`
    number,              \* local `number`
    rep,                 \* executions of the statement completed by timeit
    clock,               \* the timer
    t0,                  \* timeit's reading of the timer before its loop
    t,                   \* local `t`
    quantum_info_times,  \* local list `quantum_info_times`
    printed,             \* lines this call of run_benchmarks wrote to stdout
    genLog,              \* batches rand_label returned in this process, in order
    ctorLog,             \* ctorLog[i]: PauliList calls that received genLog[i]
    simpLog,             \* simpLog[i]: simplify calls on an operator built from genLog[i]
    callBase,            \* Len(genLog) when the current call of run_benchmarks began
    prevGenLog,          \* genLog of the previous run of the script
    failed               \* an external call has raised in this process

vars == <<pc, run, calls, rng, seeded, ki, ni, k, n, label, number, rep, clock,
          t0, t, quantum_info_times, printed, genLog, ctorLog, simpLog,
          callBase, prevGenLog, failed>>

---------------------------------------------------------------------------
(* Bounds of the model *)

MaxTicks == 1
MaxCalls == 2
MaxOsSeed == 1
MaxK == 3
MaxN == 3
MaxPos == 3

(* Program constants *)

Seed == 123
NumberDefault == 20
BigN == 10000
NumberBig == 1
MsPerSecond == 1000

Ks == <<10, 100>>
Ns == <<10, 100, 1000, 5000, 10000, 100000>>
IXYZ == <<"I", "X", "Y", "Z">>

\* States the generator may be in when the interpreter starts (seeded by the OS).
OsSeeds == 0 .. MaxOsSeed

---------------------------------------------------------------------------
(* The generator *)

seed(a) == [seed |-> a, pos |-> 0]

\* One call of random.random(): value / 65537 is the float in [0, 1).
random(r) ==
    [value |-> (((r.seed + r.pos) % 65521) * 75 + 74) % 65537,
     rng |-> [r EXCEPT !.pos = @ + 1]]

\* population[floor(random() * len(population))]
Pick(population, v) == population[((v * Len(population)) \div 65537) + 1]

RECURSIVE choices(_, _, _)
choices(population, kk, r) ==
    IF kk <= 0
    THEN [chars |-> <<>>, rng |-> r]
    ELSE LET d == random(r)
             rest == choices(population, kk - 1, d.rng)
         IN  [chars |-> <<Pick(population, d.value)>> \o rest.chars,
              rng |-> rest.rng]

RECURSIVE rand_label_wrong_axes(_, _, _)
rand_label_wrong_axes(kk, nn, r) ==
    IF kk <= 0
    THEN [labels |-> <<>>, rng |-> r]
    ELSE LET one == choices(IXYZ, nn, r)
             rest == rand_label_wrong_axes(kk - 1, nn, one.rng)
         IN  [labels |-> <<one.chars>> \o rest.labels, rng |-> rest.rng]

RECURSIVE rand_label(_, _, _)
rand_label(kk, nn, r) ==
    IF nn <= 0
    THEN [labels |-> <<>>, rng |-> r]
    ELSE LET one == choices(IXYZ, kk, r)
             rest == rand_label(kk, nn - 1, one.rng)
         IN  [labels |-> <<one.chars>> \o rest.labels, rng |-> rest.rng]

\* The list rand_label(kk, nn) returns from generator state r, named by that state.
LabelBatch(kk, nn, r) ==
    [labels |-> [k |-> kk, n |-> nn, seed |-> r.seed, start |-> r.pos],
     rng |-> [r EXCEPT !.pos = @ + kk * nn]]

\* Character i of string j of batch b.
CharAt(b, j, i) ==
    Pick(IXYZ, random([seed |-> b.seed,
                       pos |-> b.start + (j - 1) * b.k + (i - 1)]).value)

NoBatch == [k |-> 0, n |-> 0, seed |-> 0, start |-> 0]

---------------------------------------------------------------------------
(* run_benchmarks: helpers *)

\* The iterators' positions after the next step of `for k ... for n ...`,
\* or <<0, 0>> when both are exhausted.
NextPos_skips_last(a, b) ==
    IF a >= 1 /\ b < Len(Ns) - 1 THEN <<a, b + 1>>
    ELSE IF a < Len(Ks) THEN <<a + 1, 1>>
    ELSE <<0, 0>>

NextPos(a, b) ==
    IF a >= 1 /\ b < Len(Ns) THEN <<a, b + 1>>
    ELSE IF a < Len(Ks) THEN <<a + 1, 1>>
    ELSE <<0, 0>>

HasNext == NextPos(ki, ni) # <<0, 0>>

NumberOf_strict(nn) == IF nn > BigN THEN NumberBig ELSE NumberDefault

\* number = 20; if n >= 10_000: number = 1
NumberOf(nn) == IF nn >= BigN THEN NumberBig ELSE NumberDefault

\* Time one external call may take, given the timer's bound.
Durations == {d \in 0 .. 1 : clock + d <= MaxTicks}

\* The index in genLog of batch b (0: b is not a batch rand_label returned).
LogIndex(b) ==
    IF \E i \in 1 .. Len(genLog) : genLog[i] = b
    THEN CHOOSE i \in 1 .. Len(genLog) : genLog[i] = b
    ELSE 0

Bump(log, i) == IF i = 0 THEN log ELSE [log EXCEPT ![i] = @ + 1]

---------------------------------------------------------------------------
(* The process *)

Fresh(r) ==
    /\ pc = "start"
    /\ run = r
    /\ calls = 0
    /\ rng \in {seed(a) : a \in OsSeeds}
    /\ seeded = 0
    /\ ki = 0 /\ ni = 0 /\ k = 0 /\ n = 0
    /\ label = NoBatch
    /\ number = 0 /\ rep = 0
    /\ t0 = 0 /\ t = 0
    /\ quantum_info_times = <<>>
    /\ printed = <<>>
    /\ genLog = <<>> /\ ctorLog = <<>> /\ simpLog = <<>>
    /\ callBase = 0
    /\ failed = FALSE

Init ==
    /\ Fresh(1)
    /\ clock = 0
    /\ prevGenLog = <<>>

\* random.seed() without an argument: seeds from the OS, i.e. leaves an
\* OS-chosen state.
Import_unseeded ==
    /\ pc = "start"
    /\ pc' = "loaded"
    /\ seeded' = seeded + 1
    /\ UNCHANGED <<run, calls, rng, ki, ni, k, n, label, number, rep, clock, t0,
                   t, quantum_info_times, printed, genLog, ctorLog, simpLog,
                   callBase, prevGenLog, failed>>

\* Module level: random.seed(123), then the two defs.
Import ==
    /\ pc = "start"
    /\ pc' = "loaded"
    /\ rng' = seed(Seed)
    /\ seeded' = seeded + 1
    /\ UNCHANGED <<run, calls, ki, ni, k, n, label, number, rep, clock, t0, t,
                   quantum_info_times, printed, genLog, ctorLog, simpLog,
                   callBase, prevGenLog, failed>>

Call_reseeds ==
    /\ pc = "loaded"
    /\ calls < MaxCalls
    /\ pc' = "for"
    /\ rng' = seed(Seed)
    /\ seeded' = seeded + 1
    /\ quantum_info_times' = <<>>
    /\ printed' = <<>>
    /\ ki' = 0 /\ ni' = 0
    /\ callBase' = Len(genLog)
    /\ UNCHANGED <<run, calls, k, n, label, number, rep, clock, t0, t,
                   genLog, ctorLog, simpLog, prevGenLog, failed>>

\* run_benchmarks(): quantum_info_times = [] and the two iterators are created.
Call ==
    /\ pc = "loaded"
    /\ calls < MaxCalls
    /\ pc' = "for"
    /\ quantum_info_times' = <<>>
    /\ printed' = <<>>
    /\ ki' = 0 /\ ni' = 0
    /\ callBase' = Len(genLog)
    /\ UNCHANGED <<run, calls, rng, seeded, k, n, label, number, rep, clock, t0,
                   t, genLog, ctorLog, simpLog, prevGenLog, failed>>

\* label is generated once and kept for the later combinations.
GenerateLabel_cached ==
    /\ pc = "for"
    /\ HasNext
    /\ ki' = NextPos(ki, ni)[1]
    /\ ni' = NextPos(ki, ni)[2]
    /\ k' = Ks[ki']
    /\ n' = Ns[ni']
    /\ LET b == LabelBatch(k', n', rng)
       IN  IF label = NoBatch
           THEN /\ label' = b.labels
                /\ rng' = b.rng
                /\ genLog' = Append(genLog, b.labels)
                /\ ctorLog' = Append(ctorLog, 0)
                /\ simpLog' = Append(simpLog, 0)
           ELSE UNCHANGED <<label, rng, genLog, ctorLog, simpLog>>
    /\ pc' = "number"
    /\ UNCHANGED <<run, calls, seeded, number, rep, clock, t0, t,
                   quantum_info_times, printed, callBase, prevGenLog, failed>>

\* The loop headers take the next (k, n); label = rand_label(k, n).
GenerateLabel ==
    /\ pc = "for"
    /\ HasNext
    /\ ki' = NextPos(ki, ni)[1]
    /\ ni' = NextPos(ki, ni)[2]
    /\ k' = Ks[ki']
    /\ n' = Ns[ni']
    /\ LET b == LabelBatch(k', n', rng)
       IN  /\ label' = b.labels
           /\ rng' = b.rng
           /\ genLog' = Append(genLog, b.labels)
    /\ ctorLog' = Append(ctorLog, 0)
    /\ simpLog' = Append(simpLog, 0)
    /\ pc' = "number"
    /\ UNCHANGED <<run, calls, seeded, number, rep, clock, t0, t,
                   quantum_info_times, printed, callBase, prevGenLog, failed>>

\* number = 20; if n >= 10_000: number = 1
SelectNumber ==
    /\ pc = "number"
    /\ number' = NumberOf(n)
    /\ pc' = "timeit"
    /\ UNCHANGED <<run, calls, rng, seeded, ki, ni, k, n, label, rep, clock, t0,
                   t, quantum_info_times, printed, genLog, ctorLog, simpLog,
                   callBase, prevGenLog, failed>>

\* timeit(...) is entered: it reads the timer and starts its loop.
StartTimeit ==
    /\ pc = "timeit"
    /\ t0' = clock
    /\ rep' = 0
    /\ pc' = IF number > 0 THEN "construct" ELSE "timed"
    /\ UNCHANGED <<run, calls, rng, seeded, ki, ni, k, n, label, number, clock,
                   t, quantum_info_times, printed, genLog, ctorLog, simpLog,
                   callBase, prevGenLog, failed>>

\* The statement calls rand_label itself: lambda: SparsePauliOp(PauliList(rand_label(k, n))).
Construct_regenerates ==
    /\ pc = "construct"
    /\ \E d \in Durations : clock' = clock + d
    /\ LET b == LabelBatch(k, n, rng)
       IN  /\ label' = b.labels
           /\ rng' = b.rng
           /\ genLog' = Append(genLog, b.labels)
           /\ ctorLog' = Append(ctorLog, 1)
           /\ simpLog' = Append(simpLog, 0)
    /\ pc' = "simplify"
    /\ UNCHANGED <<run, calls, seeded, ki, ni, k, n, number, rep, t0, t,
                   quantum_info_times, printed, callBase, prevGenLog, failed>>

\* One execution of the statement, first half: SparsePauliOp(PauliList(label)).
Construct ==
    /\ pc = "construct"
    /\ \E d \in Durations : clock' = clock + d
    /\ ctorLog' = Bump(ctorLog, LogIndex(label))
    /\ pc' = "simplify"
    /\ UNCHANGED <<run, calls, rng, seeded, ki, ni, k, n, label, number, rep, t0,
                   t, quantum_info_times, printed, genLog, simpLog, callBase,
                   prevGenLog, failed>>

\* One execution of the statement, second half: .simplify() on the operator built.
Simplify ==
    /\ pc = "simplify"
    /\ \E d \in Durations : clock' = clock + d
    /\ simpLog' = Bump(simpLog, LogIndex(label))
    /\ rep' = rep + 1
    /\ pc' = IF rep' < number THEN "construct" ELSE "timed"
    /\ UNCHANGED <<run, calls, rng, seeded, ki, ni, k, n, label, number, t0, t,
                   quantum_info_times, printed, genLog, ctorLog, callBase,
                   prevGenLog, failed>>

\* The error is caught and the trial recorded as 0: try: ... except Exception: t = 0.
Raise_swallowed ==
    /\ pc \in {"construct", "simplify"}
    /\ t' = 0
    /\ pc' = "append"
    /\ failed' = TRUE
    /\ UNCHANGED <<run, calls, rng, seeded, ki, ni, k, n, label, number, rep,
                   clock, t0, quantum_info_times, printed, genLog, ctorLog,
                   simpLog, callBase, prevGenLog>>

\* The external call raises: nothing in the script catches it, so it leaves
\* timeit, run_benchmarks and the module, and the process ends.
Raise ==
    /\ pc \in {"construct", "simplify"}
    /\ pc' = "raised"
    /\ failed' = TRUE
    /\ UNCHANGED <<run, calls, rng, seeded, ki, ni, k, n, label, number, rep,
                   clock, t0, t, quantum_info_times, printed, genLog, ctorLog,
                   simpLog, callBase, prevGenLog>>

\* timeit reads the timer again and returns the difference: t = timeit(...).
EndTimeit ==
    /\ pc = "timed"
    /\ t' = clock - t0
    /\ pc' = "scale"
    /\ UNCHANGED <<run, calls, rng, seeded, ki, ni, k, n, label, number, rep,
                   clock, t0, quantum_info_times, printed, genLog, ctorLog,
                   simpLog, callBase, prevGenLog, failed>>

Scale_no_division ==
    /\ pc = "scale"
    /\ t' = t * MsPerSecond
    /\ pc' = "append"
    /\ UNCHANGED <<run, calls, rng, seeded, ki, ni, k, n, label, number, rep,
                   clock, t0, quantum_info_times, printed, genLog, ctorLog,
                   simpLog, callBase, prevGenLog, failed>>

\* t = t * 1000 / number
Scale ==
    /\ pc = "scale"
    /\ t' = (t * MsPerSecond) \div number
    /\ pc' = "append"
    /\ UNCHANGED <<run, calls, rng, seeded, ki, ni, k, n, label, number, rep,
                   clock, t0, quantum_info_times, printed, genLog, ctorLog,
                   simpLog, callBase, prevGenLog, failed>>

\* quantum_info_times.append(t)
AppendTime ==
    /\ pc = "append"
    /\ quantum_info_times' = Append(quantum_info_times, t)
    /\ pc' = "print"
    /\ UNCHANGED <<run, calls, rng, seeded, ki, ni, k, n, label, number, rep,
                   clock, t0, t, printed, genLog, ctorLog, simpLog, callBase,
                   prevGenLog, failed>>

\* The line shows the total, not the mean: print(f'k={k}, n={n}, {t * number} ms').
PrintLine_total ==
    /\ pc = "print"
    /\ printed' = Append(printed, [k |-> k, n |-> n, t |-> t * number])
    /\ pc' = "for"
    /\ UNCHANGED <<run, calls, rng, seeded, ki, ni, k, n, label, number, rep,
                   clock, t0, t, quantum_info_times, genLog, ctorLog, simpLog,
                   callBase, prevGenLog, failed>>

\* print(f'k={k}, n={n}, {t} ms')
PrintLine ==
    /\ pc = "print"
    /\ printed' = Append(printed, [k |-> k, n |-> n, t |-> t])
    /\ pc' = "for"
    /\ UNCHANGED <<run, calls, rng, seeded, ki, ni, k, n, label, number, rep,
                   clock, t0, t, quantum_info_times, genLog, ctorLog, simpLog,
                   callBase, prevGenLog, failed>>

\* Both iterators are exhausted: return quantum_info_times.
Return ==
    /\ pc = "for"
    /\ ~HasNext
    /\ calls' = calls + 1
    /\ pc' = "loaded"
    /\ UNCHANGED <<run, rng, seeded, ki, ni, k, n, label, number, rep, clock,
                   t0, t, quantum_info_times, printed, genLog, ctorLog, simpLog,
                   callBase, prevGenLog, failed>>

\* The interpreter exits after run_benchmarks has returned.
Exit ==
    /\ pc = "loaded"
    /\ calls >= 1
    /\ pc' = "exited"
    /\ UNCHANGED <<run, calls, rng, seeded, ki, ni, k, n, label, number, rep,
                   clock, t0, t, quantum_info_times, printed, genLog, ctorLog,
                   simpLog, callBase, prevGenLog, failed>>

\* The script is run again: a new process, whose timer goes on.
Restart ==
    /\ pc = "exited"
    /\ run = 1
    /\ prevGenLog' = genLog
    /\ UNCHANGED clock
    /\ pc' = "start"
    /\ run' = 2
    /\ calls' = 0
    /\ rng' \in {seed(a) : a \in OsSeeds}
    /\ seeded' = 0
    /\ ki' = 0 /\ ni' = 0 /\ k' = 0 /\ n' = 0
    /\ label' = NoBatch
    /\ number' = 0 /\ rep' = 0
    /\ t0' = 0 /\ t' = 0
    /\ quantum_info_times' = <<>>
    /\ printed' = <<>>
    /\ genLog' = <<>> /\ ctorLog' = <<>> /\ simpLog' = <<>>
    /\ callBase' = 0
    /\ failed' = FALSE

Next ==
    \/ Import
    \/ Call
    \/ GenerateLabel
    \/ SelectNumber
    \/ StartTimeit
    \/ Construct
    \/ Simplify
    \/ Raise
    \/ EndTimeit
    \/ Scale
    \/ AppendTime
    \/ PrintLine
    \/ Return
    \/ Exit
    \/ Restart

Spec == Init /\ [][Next]_vars

---------------------------------------------------------------------------
(* rand_label on its own: any small k, n, from any generator state *)

InitLabel ==
    /\ pc = "rand_label"
    /\ k \in 1 .. MaxK
    /\ n \in 1 .. MaxN
    /\ rng \in {[seed |-> a, pos |-> p] : a \in OsSeeds \cup {Seed}, p \in 0 .. MaxPos}
    /\ label = <<>>
    /\ run = 1 /\ calls = 0 /\ seeded = 0 /\ ki = 0 /\ ni = 0
    /\ number = 0 /\ rep = 0 /\ clock = 0 /\ t0 = 0 /\ t = 0
    /\ quantum_info_times = <<>> /\ printed = <<>>
    /\ genLog = <<>> /\ ctorLog = <<>> /\ simpLog = <<>>
    /\ callBase = 0 /\ prevGenLog = <<>> /\ failed = FALSE

\* label = rand_label(k, n)
RandLabel ==
    /\ pc = "rand_label"
    /\ label' = rand_label(k, n, rng).labels
    /\ rng' = rand_label(k, n, rng).rng
    /\ pc' = "rand_label_done"
    /\ UNCHANGED <<run, calls, seeded, ki, ni, k, n, number, rep, clock, t0, t,
                   quantum_info_times, printed, genLog, ctorLog, simpLog,
                   callBase, prevGenLog, failed>>

NextLabel == RandLabel

SpecLabel == InitLabel /\ [][NextLabel]_vars

\* The list rand_label builds is the one LabelBatch names: the same characters,
\* and the same generator state afterwards.
BatchViewAgrees ==
    [][pc = "rand_label" =>
         LET b == LabelBatch(k, n, rng)
         IN  /\ rng' = b.rng
             /\ Len(label') = b.labels.n
             /\ \A j \in 1 .. n : Len(label'[j]) = b.labels.k
             /\ \A j \in 1 .. n : \A i \in 1 .. k :
                    label'[j][i] = CharAt(b.labels, j, i)]_vars

---------------------------------------------------------------------------
(* What the properties below are stated in *)

\* The grid in iteration order, written out.
ExpectedGrid ==
    << <<10, 10>>, <<10, 100>>, <<10, 1000>>, <<10, 5000>>, <<10, 10000>>,
       <<10, 100000>>, <<100, 10>>, <<100, 100>>, <<100, 1000>>, <<100, 5000>>,
       <<100, 10000>>, <<100, 100000>> >>

\* The repetition count the policy gives a batch size.
ExpectedReps(nn) == IF nn >= 10000 THEN 1 ELSE 20

\* Combinations the current call of run_benchmarks has taken from its loops.
Started == Len(genLog) - callBase

\* The (k, n) of those combinations, in the order taken.
Visited == [i \in 1 .. Started |-> <<genLog[callBase + i].k, genLog[callBase + i].n>>]

\* timeit's loop is over for the current combination (or no call is running).
AfterTimed == pc \in {"timed", "scale", "append", "print", "for", "loaded", "exited"}

\* The trial of genLog[i] has run all its repetitions.
Completed(i) == i < Len(genLog) \/ AfterTimed

\* Between timeit's two readings of the timer.
InTimedRegion == pc \in {"construct", "simplify", "timed"}

\* run_benchmarks has returned and its result is quantum_info_times.
Returned == pc \in {"loaded", "exited"} /\ calls >= 1

---------------------------------------------------------------------------
(* The properties *)

\* C1: for every k > 0 and n > 0, rand_label(k, n) returns exactly n strings,
\* each of exactly k characters, every character one of I, X, Y, Z.
C1_LabelsWellFormed ==
    pc = "rand_label_done" =>
        /\ Len(label) = n
        /\ \A j \in 1 .. Len(label) :
              /\ Len(label[j]) = k
              /\ \A i \in 1 .. Len(label[j]) : label[j][i] \in {"I", "X", "Y", "Z"}

\* rand_label(2, 3) has returned (three strings of two characters).
C1_Witness ==
    /\ pc = "rand_label_done"
    /\ k = 2 /\ n = 3
    /\ Len(label) = 3
    /\ rng.seed = 123

\* C2: for every combination the construct-then-simplify sequence runs exactly
\* once when n >= 10000 and exactly 20 times otherwise, whatever k is; within a
\* repetition the operator is constructed before simplify is called on it.
C2_RepetitionPolicy ==
    /\ \A i \in 1 .. Len(genLog) :
          /\ simpLog[i] <= ctorLog[i]
          /\ ctorLog[i] <= simpLog[i] + 1
          /\ ctorLog[i] <= ExpectedReps(genLog[i].n)
          /\ Completed(i) =>
                /\ ctorLog[i] = ExpectedReps(genLog[i].n)
                /\ simpLog[i] = ExpectedReps(genLog[i].n)
    /\ pc = "simplify" => ctorLog[Len(genLog)] = simpLog[Len(genLog)] + 1
    /\ pc = "construct" => ctorLog[Len(genLog)] = simpLog[Len(genLog)]

\* A call has gone through the whole grid, for both k: 20 repetitions below
\* n = 10000, one from there on.
C2_Witness ==
    /\ Returned
    /\ Len(genLog) = 12
    /\ ctorLog = <<20, 20, 20, 20, 1, 1, 20, 20, 20, 20, 1, 1>>
    /\ simpLog = ctorLog

\* C3: a run of run_benchmarks() that completes returns exactly 12 samples, one
\* per (k, n), the pairs having been visited in the nested order k = 10 with
\* n = 10, 100, 1000, 5000, 10000, 100000, then k = 100 with the same n; no pair
\* is visited twice or skipped.
C3_GridOrder ==
    /\ Started <= 12
    /\ \A i \in 1 .. Started : i <= 12 /\ Visited[i] = ExpectedGrid[i]
    /\ Returned =>
          /\ Len(quantum_info_times) = 12
          /\ Started = 12

\* A call has returned its 12 samples.
C3_Witness ==
    /\ Returned
    /\ Len(quantum_info_times) = 12
    /\ Visited = ExpectedGrid

\* C4: run_benchmarks() prints one line per combination, in grid order; line i
\* carries the k and n of combination i and the value of sample i; the numbers
\* of lines and of samples never differ by more than one.
C4_PrintedMatchesSamples ==
    /\ Len(printed) <= Len(quantum_info_times)
    /\ Len(quantum_info_times) <= Len(printed) + 1
    /\ Len(printed) <= 12
    /\ \A i \in 1 .. Len(printed) :
          /\ i <= 12
          /\ <<printed[i].k, printed[i].n>> = ExpectedGrid[i]
          /\ printed[i].t = quantum_info_times[i]
    /\ Returned => Len(printed) = 12

\* A call has returned after printing 12 lines, one of them with a time above 0
\* measured over 20 repetitions.
C4_Witness ==
    /\ Returned
    /\ Len(printed) = 12
    /\ \E i \in 1 .. Len(printed) : printed[i].t > 0 /\ printed[i].n < 10000

\* C5: two successive runs of the script, each seeding the generator afresh
\* with the same value, draw the same label batches for every combination,
\* whatever the timings were.
C5_RunsDrawSameLabels ==
    run = 2 =>
        \A i \in 1 .. Len(genLog) :
            i <= Len(prevGenLog) =>
                /\ genLog[i] = prevGenLog[i]
                /\ CharAt(genLog[i], 1, 1) = CharAt(prevGenLog[i], 1, 1)
                /\ CharAt(genLog[i], genLog[i].n, genLog[i].k)
                     = CharAt(prevGenLog[i], prevGenLog[i].n, prevGenLog[i].k)

\* The second run has gone through the whole grid, as the first had, and the
\* two runs did not take the same time.
C5_Witness ==
    /\ run = 2
    /\ Returned
    /\ Len(genLog) = 12
    /\ Len(prevGenLog) >= 12
    /\ \E i \in 1 .. Len(printed) : printed[i].t > 0

\* C6: the generator is seeded exactly once, before any label is generated,
\* and never again in the process, a second call of run_benchmarks() included:
\* after that, only label generation changes its state, and each generation
\* advances it.
C6_SeededOnce ==
    /\ [](/\ seeded <= 1
          /\ pc # "start" => seeded = 1
          /\ genLog # <<>> => (seeded = 1 /\ rng.seed = 123))
    /\ [][run' = run =>
            /\ rng' # rng =>
                  \/ pc = "start" /\ genLog = <<>> /\ rng' = [seed |-> 123, pos |-> 0]
                  \/ /\ Len(genLog') = Len(genLog) + 1
                     /\ rng'.seed = rng.seed
            /\ Len(genLog') = Len(genLog) + 1 =>
                  /\ rng'.seed = rng.seed
                  /\ rng'.pos > rng.pos]_vars

\* A second call of run_benchmarks() in the same process is half way.
C6_Witness ==
    /\ calls = 1
    /\ pc = "simplify"
    /\ Len(genLog) = 18
    /\ seeded = 1
    /\ rng.seed = 123

\* C7 as stated: the constructor receives each combination's batch exactly once.
C7_ConsumedExactlyOnce ==
    \A i \in 1 .. Len(genLog) :
        /\ ctorLog[i] <= 1
        /\ Completed(i) => ctorLog[i] = 1

\* C7 as amended: a batch is created per trial and passed to the constructor
\* once per repetition of its own trial (20 times, once when n >= 10000); no
\* constructor call of a later trial receives it.
C7_UsedInOwnTrialOnly ==
    /\ \A i \in 1 .. Len(genLog) :
          /\ ctorLog[i] <= ExpectedReps(genLog[i].n)
          /\ Completed(i) => ctorLog[i] = ExpectedReps(genLog[i].n)
          /\ i < Len(genLog) => genLog[i] # genLog[Len(genLog)]
    /\ (pc \in {"number", "timeit"} \/ InTimedRegion) =>
          /\ label = genLog[Len(genLog)]
          /\ label.k = k /\ label.n = n

\* The second trial's batch is being passed to the constructor for the 20th
\* time, the first trial's having been passed 20 times.
C7_Witness ==
    /\ Len(genLog) = 2
    /\ ctorLog = <<20, 20>>
    /\ pc = "simplify"

\* C8: the duration reported for a combination is the time elapsed over all its
\* repetitions, times 1000, divided by its repetition count (20 or 1); it is
\* never negative.
C8_MeanMilliseconds ==
    /\ pc \in {"append", "print"} =>
          /\ t * ExpectedReps(n) = (clock - t0) * 1000
          /\ t >= 0
    /\ pc = "print" => quantum_info_times[Len(quantum_info_times)] = t
    /\ \A i \in 1 .. Len(quantum_info_times) : quantum_info_times[i] >= 0

\* One unit of time over 20 repetitions is about to be reported as 50 ms.
C8_Witness ==
    /\ pc = "print"
    /\ number = 20
    /\ clock - t0 = 1
    /\ t = 50

\* C9: when an external call raises during a trial, the error leaves
\* run_benchmarks(): nothing is appended or printed for that combination or a
\* later one, nothing is retried, and the samples and lines are those of the
\* trials completed before.
C9_ErrorPropagates ==
    /\ [](failed =>
            /\ pc = "raised"
            /\ Len(quantum_info_times) = Started - 1
            /\ Len(printed) = Started - 1
            /\ \A i \in 1 .. Len(printed) :
                  /\ <<printed[i].k, printed[i].n>> = ExpectedGrid[i]
                  /\ printed[i].t = quantum_info_times[i])
    /\ [][failed => /\ pc' = "raised"
                    /\ quantum_info_times' = quantum_info_times
                    /\ printed' = printed
                    /\ ctorLog' = ctorLog
                    /\ simpLog' = simpLog]_vars

\* simplify has raised in the third trial, after some repetitions.
C9_Witness ==
    /\ failed
    /\ pc = "raised"
    /\ Started = 3
    /\ Len(printed) = 2
    /\ rep > 0
    /\ ctorLog[Len(genLog)] = simpLog[Len(genLog)] + 1

\* C10: the batch of a combination is generated exactly once, before the timed
\* region; the repetitions call no label generation and leave the generator's
\* state alone, so that all of them work on the one unchanged batch.
C10_GeneratedOutsideTimedRegion ==
    /\ [](/\ ki >= 1 => Started = (ki - 1) * 6 + ni
          /\ ki = 0 => Started = 0
          /\ (pc = "timeit" \/ InTimedRegion) =>
                /\ label = genLog[Len(genLog)]
                /\ rng.pos = label.start + k * n)
    /\ [][(pc = "timeit" \/ InTimedRegion) =>
            /\ rng' = rng
            /\ label' = label
            /\ genLog' = genLog]_vars

\* The 20th repetition of a trial is under way, time having passed in the
\* timed region.
C10_Witness ==
    /\ pc = "simplify"
    /\ rep = 19
    /\ clock > t0
    /\ Started = 1

====
